---- MODULE Spec2Model ----
(***************************************************************************)
(* clawbang: run a Rust script through a build cache.                      *)
(*                                                                         *)
(* The model follows src/src/main.rs: main() (fingerprint, store lookup,   *)
(* replay or populate, execute) and populate_cache() (extract the source   *)
(* body and the frontmatter, stage the workspace, spawn cargo, drain its   *)
(* output through a Tee, commit the log blob and the keyed entry).         *)
(*                                                                         *)
(* Text is a sequence of one-character strings.  The cacache store is a    *)
(* key index plus a content-addressed blob set, as the calls of main.rs    *)
(* use it: metadata_sync / copy_sync / read_sync go through the key index, *)
(* write_hash_sync stores a blob under its own digest only, and a keyed    *)
(* writer publishes blob and index entry on commit().                      *)
(***************************************************************************)
EXTENDS Integers, Sequences, FiniteSets, TLC

\* ------------------------------------------------------------------ bounds

\* invocations of the tool in one behaviour
MaxRuns == 2
\* bytes the external compiler writes to its merged output in one build
MaxOut == 2
\* the same, for the compiler of few words
MaxQuietOut == 1
\* bytes handed to a Tee on its own, over all its write calls
MaxTeeBytes == 4

\* ------------------------------------------------------------ text helpers

None == "none"

\* Option: Nothing, or Some(x)
Nothing == << >>
Some(x) == << x >>

WhiteSpace == {" ", "\n"}

\* s[from..] with Rust's 0-based offsets
SliceFrom(s, from) == SubSeq(s, from + 1, Len(s))

\* s[from..to] with Rust's 0-based, half-open offsets
Slice(s, from, to) == SubSeq(s, from + 1, to)

\* str::starts_with
StartsWith(s, pat) ==
    /\ Len(pat) <= Len(s)
    /\ SubSeq(s, 1, Len(pat)) = pat

\* str::find: the 0-based offset of the first occurrence, -1 for Option::None
Find(s, pat) ==
    LET hits == { i \in 0..(Len(s) - Len(pat)) : SubSeq(s, i + 1, i + Len(pat)) = pat }
    IN  IF hits = {} THEN -1 ELSE CHOOSE i \in hits : \A j \in hits : i <= j

\* str::trim: leading and trailing white space removed
Trim(s) ==
    LET keep == { i \in 1..Len(s) : s[i] \notin WhiteSpace }
    IN  IF keep = {} THEN << >>
        ELSE SubSeq(s, CHOOSE i \in keep : \A j \in keep : i <= j,
                       CHOOSE i \in keep : \A j \in keep : i >= j)

\* the lines of a text, split at "\n"
RECURSIVE Lines(_)
Lines(s) ==
    LET nl == Find(s, << "\n" >>)
    IN  IF nl = -1 THEN << s >>
        ELSE << Slice(s, 0, nl) >> \o Lines(SliceFrom(s, nl + 1))

\* a function extended or overwritten at one key (Map::insert)
Put(f, k, v) == [ x \in (DOMAIN f) \cup {k} |-> IF x = k THEN v ELSE f[x] ]

EmptyMap == [ x \in {} |-> None ]

\* --------------------------------------------------------- get_key (138-146)

\* a digest of the input without its first line
get_key_sans_first_line(input) ==
    << "sha256-hex", SliceFrom(input, Find(input, << "\n" >>) + 1) >>

\* The SHA-256 digest, hex encoded.  The digest is modelled as collision
\* free: the key names exactly the bytes that were hashed.
get_key(input) == << "sha256-hex", input >>

\* cacache's content address of a blob (Integrity), same idealisation
Integrity(bytes) == << "sha256-sri", bytes >>

\* ------------------------------------- source-body extraction (155-167)

Shebang == << "#", "!" >>
Delim == << "+", "+", "+", "\n" >>
CloseDelim == << "\n", "+", "+", "+", "\n" >>

\* lines 156-160: the shebang line is cut at the first "\n" of the
\* untrimmed source; find(..).unwrap() panics when there is none
StripShebang(source) ==
    IF StartsWith(Trim(source), Shebang)
    THEN IF Find(source, << "\n" >>) = -1
         THEN [ panic |-> TRUE, trimmed |-> << >> ]
         ELSE [ panic |-> FALSE,
                trimmed |-> Trim(SliceFrom(source, Find(source, << "\n" >>) + 1)) ]
    ELSE [ panic |-> FALSE, trimmed |-> Trim(source) ]

\* a split that takes an unclosed block for source text
SplitFrontmatter_lenient(trimmed) ==
    IF StartsWith(trimmed, Delim) /\ Find(SliceFrom(trimmed, 4), CloseDelim) # -1
    THEN [ err |-> FALSE,
           frontmatter |-> Slice(trimmed, 4, Find(SliceFrom(trimmed, 4), CloseDelim) + 4),
           rust_src |-> SliceFrom(trimmed, Find(SliceFrom(trimmed, 4), CloseDelim) + 9) ]
    ELSE [ err |-> FALSE, frontmatter |-> << >>, rust_src |-> trimmed ]

\* lines 162-167
SplitFrontmatter(trimmed) ==
    IF StartsWith(trimmed, Delim)
    THEN LET offset == Find(SliceFrom(trimmed, 4), CloseDelim)
         IN  IF offset = -1
             THEN [ err |-> TRUE, frontmatter |-> << >>, rust_src |-> << >> ]
             ELSE [ err |-> FALSE,
                    frontmatter |-> Slice(trimmed, 4, offset + 4),
                    rust_src |-> SliceFrom(trimmed, offset + 9) ]
    ELSE [ err |-> FALSE, frontmatter |-> << >>, rust_src |-> trimmed ]

\* ------------------------------------------------ manifest (169-177)

\* toml::Value: a string or a table
Str(s) == [ t |-> "str", v |-> s ]
Tbl(f) == [ t |-> "tbl", v |-> f ]

\* The manifest language in miniature: one assignment per line, each
\* written as a single letter.
\*   n  package.name = "custom"       v  package.version = "9.9.9"
\*   e  package.edition = "2018"      a  package.authors = "me"
\*   d  dependencies.rand = "0.8"     p  package = "plain"
\* Any other non-blank line is a syntax error.
TomlItem(c) ==
    CASE c = "n" -> [ path |-> << "package", "name" >>, val |-> "custom" ]
      [] c = "v" -> [ path |-> << "package", "version" >>, val |-> "9.9.9" ]
      [] c = "e" -> [ path |-> << "package", "edition" >>, val |-> "2018" ]
      [] c = "a" -> [ path |-> << "package", "authors" >>, val |-> "me" ]
      [] c = "d" -> [ path |-> << "dependencies", "rand" >>, val |-> "0.8" ]
      [] c = "p" -> [ path |-> << "package" >>, val |-> "plain" ]
      [] OTHER -> [ path |-> << >>, val |-> None ]

\* one assignment into the document; a key defined twice is an error
TomlAssign(acc, item) ==
    LET k == item.path[1] IN
    IF acc.err \/ Len(item.path) = 0 THEN [ acc EXCEPT !.err = TRUE ]
    ELSE IF Len(item.path) = 1
    THEN IF k \in DOMAIN acc.tbl THEN [ acc EXCEPT !.err = TRUE ]
         ELSE [ acc EXCEPT !.tbl = Put(acc.tbl, k, Str(item.val)) ]
    ELSE IF k \notin DOMAIN acc.tbl
    THEN [ acc EXCEPT !.tbl = Put(acc.tbl, k, Tbl(Put(EmptyMap, item.path[2], Str(item.val)))) ]
    ELSE IF acc.tbl[k].t # "tbl" \/ item.path[2] \in DOMAIN acc.tbl[k].v
    THEN [ acc EXCEPT !.err = TRUE ]
    ELSE [ acc EXCEPT !.tbl = Put(acc.tbl, k, Tbl(Put(acc.tbl[k].v, item.path[2], Str(item.val)))) ]

RECURSIVE TomlFold(_, _)
TomlFold(lines, acc) ==
    IF lines = << >> THEN acc
    ELSE LET line == Trim(Head(lines)) IN
         TomlFold(Tail(lines),
                  IF line = << >> THEN acc
                  ELSE IF Len(line) = 1 THEN TomlAssign(acc, TomlItem(line[1]))
                  ELSE [ acc EXCEPT !.err = TRUE ])

\* line 169: toml::from_str
toml_from_str(text) == TomlFold(Lines(text), [ err |-> FALSE, tbl |-> EmptyMap ])

\* lines 171-175: the package table is fetched or created, then the three
\* fixed fields are inserted.  as_table_mut().unwrap() panics when the
\* caller's "package" is not a table.
MergeManifest(tbl) ==
    LET pkg == IF "package" \in DOMAIN tbl THEN tbl["package"] ELSE Tbl(EmptyMap) IN
    IF pkg.t # "tbl" THEN [ panic |-> TRUE, tbl |-> tbl ]
    ELSE [ panic |-> FALSE,
           tbl |-> Put(tbl, "package",
                       Tbl(Put(Put(Put(pkg.v, "name", Str("bin")),
                                   "version", Str("0.0.1")),
                               "edition", Str("2021")))) ]

\* line 177: toml::to_string_pretty, as the set of dotted assignments the
\* text states
to_string_pretty(tbl) ==
    { << << k >>, tbl[k].v >> : k \in { x \in DOMAIN tbl : tbl[x].t = "str" } }
    \cup UNION { { << << k, j >>, tbl[k].v[j].v >> : j \in DOMAIN tbl[k].v }
                 : k \in { x \in DOMAIN tbl : tbl[x].t = "tbl" } }

\* --------------------------------------------------- child termination

Exited(n) == [ kind |-> "Exited", v |-> n ]
Signaled(n) == [ kind |-> "Signaled", v |-> n ]
Other(n) == [ kind |-> "Other", v |-> n ]
Undetermined == [ kind |-> "Undetermined", v |-> 0 ]

\* lines 213-218 (populate_cache).  The u32 / u8 payloads hold wait-status
\* values below 256, so the casts to i32 change nothing.
InvokerExitCode(st) ==
    CASE st.kind = "Exited" -> st.v
      [] st.kind = "Signaled" -> st.v
      [] st.kind = "Other" -> st.v
      [] OTHER -> 1

\* lines 130-135 (main)
ExecutorExitCode(st) ==
    CASE st.kind = "Exited" -> st.v
      [] st.kind = "Signaled" -> st.v
      [] st.kind = "Other" -> st.v
      [] OTHER -> -1

\* ------------------------------------------------------------ environment

\* a byte that is not valid UTF-8
InvalidByte == "0xFF"

\* the scripts handed to the tool
PlainScript == << "s" >>
ShebangScript ==
    << "#", "!", "x", "\n", "+", "+", "+", "\n", "n", "\n", "d", "\n",
       "+", "+", "+", "\n", "t" >>
ScalarPackageScript == << "+", "+", "+", "\n", "p", "\n", "+", "+", "+", "\n", "s" >>
UnclosedScript == << "+", "+", "+", "\n", "d", "\n", "s" >>
BinaryInput == << "s", InvalidByte >>
\* a frontmatter that is no manifest text
BadTomlScript == << "+", "+", "+", "\n", "z", "\n", "+", "+", "+", "\n", "s" >>
\* ShebangScript under another interpreter line
OtherShebangScript == << "#", "!", "y", "\n" >> \o SliceFrom(ShebangScript, 4)

RawInputs == { PlainScript, ShebangScript, ScalarPackageScript, UnclosedScript, BinaryInput }

\* the texts extraction is tried on: optional leading white space, an
\* optional shebang line, an optional frontmatter block (empty, closed,
\* closed by the last line, unclosed, opened only), an optional body
Leads == { << >>, << " " >>, << "\n" >> }
ShebangLines == { << >>, << "#", "!", "x" >>, << "#", "!", "x", "\n" >> }
FrontBlocks ==
    { << >>,
      << "+", "+", "+", "\n", "+", "+", "+", "\n" >>,
      << "+", "+", "+", "\n", "d", "\n", "+", "+", "+", "\n" >>,
      << "+", "+", "+", "\n", "d", "\n", "+", "+", "+" >>,
      << "+", "+", "+", "\n", "d", "\n" >>,
      << "+", "+", "+" >> }
Bodies == { << >>, << "s" >>, << "s", "\n" >> }

Texts ==
    { l \o h \o f \o b : l \in Leads, h \in ShebangLines, f \in FrontBlocks, b \in Bodies }

\* the argument lists forwarded to the artifact (opts.rest)
ArgLists == { << >>, << "a" >> }

\* opts.verbose
Verbosity == { 0, 1 }

\* the concurrent invocations
Procs == { 1, 2 }

\* the bytes cargo may write
OutBytes == { "w", "e" }

\* how a build may end: the termination subprocess reports, and whether
\* target/release/bin exists.  cargo leaves the executable exactly when it
\* succeeds; the wait may find the child already reaped (Undetermined)
\* after a build of either kind.
BuildOutcomes ==
    { << Exited(0), TRUE >>, << Exited(101), FALSE >>, << Signaled(9), FALSE >>,
      << Undetermined, TRUE >>, << Undetermined, FALSE >> }

\* the executable cargo leaves at target/release/bin for a staged workspace
Artifact(main_rs, cargo_toml) == << "elf", main_rs >>

IsExecutable(bytes) == Len(bytes) = 2 /\ bytes[1] = "elf"

\* what the built program does with its arguments: the program "s" exits
\* with 7 plus the number of arguments, any other exits with 0 when it is
\* given no argument and aborts otherwise
Behaviour(bytes, args) ==
    IF bytes[2] = << "s" >> THEN Exited(7 + Len(args))
    ELSE IF args = << >> THEN Exited(0) ELSE Signaled(6)

\* ------------------------------------------------------------------ state

VARIABLES
    proc,       \* proc[p]: the invocation run by process p (main's locals)
    store,      \* the cache root: [index, content]
    hist,       \* the finished invocations, in order of completion
    started,    \* invocations started so far
    commits     \* the keyed commits, in the order the store saw them

vars == << proc, store, hist, started, commits >>

NoChild == [ alive |-> FALSE, open |-> FALSE, pipe |-> << >>, produced |-> << >>,
             status |-> Undetermined ]

NoFiles == [ cargo_toml |-> Nothing, main_rs |-> Nothing, target_bin |-> Nothing,
             bin |-> Nothing ]

Idle ==
    [ pc |-> "idle", seq |-> 0, source |-> << >>, rest |-> << >>, verbose |-> 0,
      tempdir |-> "absent", cache_key |-> None, metadata |-> Nothing, path |-> None,
      files |-> NoFiles, pb |-> None, child |-> NoChild,
      tee |-> [ accum |-> << >>, inner |-> << >> ],
      exit_code |-> 0, output_id |-> None, writer |-> << >>, committed |-> FALSE,
      compiles |-> 0, execs |-> 0, exec_bytes |-> Nothing, exec_args |-> << >>,
      exec_status |-> Undetermined,
      stderr |-> << >>, stdout |-> << >>, ops |-> << >>,
      outcome |-> None, error |-> None, code |-> 0 ]

Init ==
    /\ proc = [ p \in Procs |-> Idle ]
    /\ store = [ index |-> EmptyMap, content |-> {} ]
    /\ hist = << >>
    /\ started = 0
    /\ commits = << >>

\* ------------------------------------------------------------------ store

\* a lookup that never finds the entry
metadata_sync_always_miss(st, key) == Nothing

\* cacache::metadata_sync(cache, key): the index entry's metadata, if any
metadata_sync(st, key) ==
    IF key \in DOMAIN st.index THEN Some(st.index[key].metadata) ELSE Nothing

\* content lookup by address
ReadContent(st, sri) ==
    IF sri[2] \in st.content THEN [ ok |-> TRUE, bytes |-> sri[2] ]
    ELSE [ ok |-> FALSE, bytes |-> << >> ]

\* cacache::read_sync / copy_sync (cache, key): the key is looked up in the
\* index and the blob it names is read; an unknown key is an error
read_sync(st, key) ==
    IF key \in DOMAIN st.index THEN ReadContent(st, st.index[key].integrity)
    ELSE [ ok |-> FALSE, bytes |-> << >> ]

\* a copy that takes the blob named by the entry's output_id, the build
\* log, for the blob stored under the key
copy_sync_log_blob(st, key) ==
    IF key \in DOMAIN st.index
    THEN ReadContent(st, st.index[key].metadata.output_id)
    ELSE [ ok |-> FALSE, bytes |-> << >> ]

\* cacache::copy_sync(cache, key, to): the blob stored under the key
copy_sync(st, key) == read_sync(st, key)

\* a write that returns the digest and stores nothing
write_hash_sync_nowhere(st, data) == st

\* cacache::write_hash_sync(cache, data): the blob is stored under its own
\* digest; no index entry is written
write_hash_sync(st, data) == [ st EXCEPT !.content = @ \cup { data } ]

\* a commit that writes the index entry and leaves the blob where it is
writer_commit_index_only(st, key, meta, data) ==
    [ st EXCEPT !.index = Put(st.index, key,
                              [ integrity |-> Integrity(data), metadata |-> meta ]) ]

\* SyncWriter::commit() of a writer opened by key with metadata: the blob
\* is moved into place, then the index entry for the key is written
writer_commit(st, key, meta, data) ==
    [ index |-> Put(st.index, key, [ integrity |-> Integrity(data), metadata |-> meta ]),
      content |-> st.content \cup { data } ]

\* ---------------------------------------------------------------- Tee (39-66)

\* lines 58-61: the whole buffer is appended to accum, then handed to the
\* inner sink, which accepts n of its bytes
Tee_write(tee, bytes, n) ==
    [ accum |-> tee.accum \o bytes, inner |-> tee.inner \o SubSeq(bytes, 1, n) ]

\* std::io::sink() accepts every byte
sink_write(bytes) == Len(bytes)

\* a build writer that is the tool's own standard output whenever the run
\* is verbose
populate_stdout_echo(verbose) == IF verbose < 1 THEN "sink" ELSE "stdout"

\* lines 101-117: the writer populate_cache is given for the build output,
\* chosen by opts.verbose; both branches pass std::io::sink()
populate_stdout(verbose) == IF verbose < 1 THEN "sink" ELSE "sink"

\* what a writer of either kind puts on the tool's standard output
Emitted(writer, bytes) == IF writer = "sink" THEN << >> ELSE bytes

\* ------------------------------------------------------- how a run ends

\* main returns Err(error): the error is reported, the process exits with
\* 1, and the TempDir is dropped on the way out
Fail(r, error) ==
    [ r EXCEPT !.pc = "done", !.outcome = "error", !.error = error, !.code = 1,
               !.tempdir = IF @ = "exists" THEN "deleted" ELSE @ ]

\* a panic unwinds main: exit status 101, locals dropped
Panic(r) ==
    [ r EXCEPT !.pc = "done", !.outcome = "panic", !.code = 101,
               !.tempdir = IF @ = "exists" THEN "deleted" ELSE @ ]

\* std::process::exit(c): no destructor runs
Exit(r, c) == [ r EXCEPT !.pc = "done", !.outcome = "exit", !.code = c ]

\* what is kept of a finished invocation
Summary(r) ==
    [ seq |-> r.seq, source |-> r.source, rest |-> r.rest, path |-> r.path,
      metadata |-> r.metadata, cargo_toml |-> r.files.cargo_toml,
      target_bin |-> r.files.target_bin,
      compiles |-> r.compiles, execs |-> r.execs,
      produced |-> r.child.produced, accum |-> r.tee.accum,
      status |-> r.child.status, exit_code |-> r.exit_code,
      committed |-> r.committed, stderr |-> r.stderr, stdout |-> r.stdout,
      verbose |-> r.verbose, ops |-> r.ops,
      exec_bytes |-> r.exec_bytes, exec_args |-> r.exec_args,
      exec_status |-> r.exec_status, tempdir |-> r.tempdir,
      outcome |-> r.outcome, error |-> r.error, code |-> r.code ]

\* the run of process p is over: it is recorded and p is free again
Finish(p, r) ==
    /\ hist' = Append(hist, Summary(r))
    /\ proc' = [ proc EXCEPT ![p] = Idle ]

Step(p, r) == proc' = [ proc EXCEPT ![p] = r ]

\* ------------------------------------------------------------ main (68-136)

\* lines 70-79: options, the input is read and decoded, the TempDir is
\* created, the key is computed
Begin(p, source, rest, verbose) ==
    LET r == [ proc[p] EXCEPT !.seq = started + 1, !.source = source,
                              !.rest = rest, !.verbose = verbose ] IN
    /\ started' = started + 1
    /\ UNCHANGED << store, commits >>
    /\ IF InvalidByte \in { source[i] : i \in 1..Len(source) }
       THEN Finish(p, Fail(r, "FromUtf8Error"))
       ELSE /\ Step(p, [ r EXCEPT !.pc = "lookup", !.tempdir = "exists",
                                  !.cache_key = get_key(source) ])
            /\ UNCHANGED hist

\* line 81 and the branch of lines 83-100
Lookup(p) ==
    LET r == proc[p]
        metadata == metadata_sync(store, r.cache_key) IN
    /\ r.pc = "lookup"
    /\ Step(p, [ r EXCEPT !.metadata = metadata, !.ops = Append(@, "metadata_sync"),
                          !.path = IF metadata = Nothing THEN "miss"
                                   ELSE IF metadata[1].exit_code = 0 THEN "hit" ELSE "replay",
                          !.pc = IF metadata = Nothing THEN "stage"
                                 ELSE IF metadata[1].exit_code = 0 THEN "copy_out"
                                 ELSE "replay" ])
    /\ UNCHANGED << store, hist, started, commits >>

\* lines 87-94: the stored blob is copied to <tempdir>/bin and made
\* executable
CopyOut(p) ==
    LET r == [ proc[p] EXCEPT !.ops = Append(@, "copy_sync") ]
        got == copy_sync(store, r.cache_key) IN
    /\ r.pc = "copy_out"
    /\ UNCHANGED << store, started, commits >>
    /\ IF got.ok
       THEN /\ Step(p, [ r EXCEPT !.pc = "exec", !.pb = "bin", !.files.bin = Some(got.bytes) ])
            /\ UNCHANGED hist
       ELSE Finish(p, Fail(r, "cacache"))

\* lines 96-98: the build output named by output_id is read, written to
\* stderr, and the process exits with the stored code
Replay(p) ==
    LET r == [ proc[p] EXCEPT !.ops = Append(@, "read_sync") ]
        cache_entry == r.metadata[1]
        build_output == read_sync(store, cache_entry.output_id) IN
    /\ r.pc = "replay"
    /\ UNCHANGED << store, started, commits >>
    /\ IF build_output.ok
       THEN Finish(p, Exit([ r EXCEPT !.stderr = @ \o build_output.bytes ],
                           cache_entry.exit_code))
       ELSE Finish(p, Fail(r, "cacache"))

\* lines 125-135: the artifact at pb runs with the forwarded arguments and
\* its termination becomes the exit code.  The wait may find the child
\* already reaped (Undetermined).
Execute(p) ==
    LET r == proc[p]
        file == IF r.pb = "bin" THEN r.files.bin ELSE r.files.target_bin IN
    /\ r.pc = "exec"
    /\ UNCHANGED << store, started, commits >>
    /\ IF file = Nothing \/ ~ IsExecutable(file[1])
       THEN Finish(p, Fail(r, "popen"))
       ELSE \E reaped \in BOOLEAN :
              LET st == IF reaped THEN Undetermined ELSE Behaviour(file[1], r.rest) IN
              Finish(p, Exit([ r EXCEPT !.execs = @ + 1, !.exec_bytes = file,
                                        !.ops = Append(@, "exec"),
                                        !.exec_args = r.rest, !.exec_status = st ],
                             ExecutorExitCode(st)))

\* -------------------------------------------------- populate_cache (148-245)

\* lines 155-194: the source body and the frontmatter are extracted, the
\* manifest is merged and the workspace is written; a write to the
\* workspace may fail (fs_ok is FALSE)
Stage(p, fs_ok) ==
    LET r == proc[p]
        cut == StripShebang(r.source)
        parts == SplitFrontmatter(cut.trimmed)
        frontmatter == toml_from_str(parts.frontmatter)
        merged == MergeManifest(frontmatter.tbl) IN
    /\ r.pc = "stage"
    /\ UNCHANGED << store, started, commits >>
    /\ IF cut.panic THEN Finish(p, Panic(r))
       ELSE IF parts.err THEN Finish(p, Fail(r, "frontmatter"))
       ELSE IF frontmatter.err THEN Finish(p, Fail(r, "toml"))
       ELSE IF merged.panic THEN Finish(p, Panic(r))
       ELSE IF ~ fs_ok THEN Finish(p, Fail(r, "io: workspace"))
       ELSE /\ Step(p, [ r EXCEPT !.pc = "spawn",
                                  !.files.cargo_toml = Some(to_string_pretty(merged.tbl)),
                                  !.files.main_rs = Some(parts.rust_src) ])
            /\ UNCHANGED hist

\* lines 196-206: cargo is spawned with its output piped, and the Tee is
\* created around the sink
Spawn(p) ==
    LET r == proc[p] IN
    /\ r.pc = "spawn"
    /\ Step(p, [ r EXCEPT !.pc = "poll", !.compiles = @ + 1, !.ops = Append(@, "spawn"),
                          !.child = [ NoChild EXCEPT !.alive = TRUE, !.open = TRUE ],
                          !.tee = [ accum |-> << >>, inner |-> << >> ] ])
    /\ UNCHANGED << store, hist, started, commits >>

\* the compiler writes one more byte to its merged output, max at most
ChildWrite(p, b, max) ==
    LET r == proc[p] IN
    /\ r.child.alive /\ r.child.open
    /\ Len(r.child.produced) < max
    /\ Step(p, [ r EXCEPT !.child.pipe = Append(@, b), !.child.produced = Append(@, b) ])
    /\ UNCHANGED << store, hist, started, commits >>

\* the compiler closes its output while it keeps running
ChildClose(p) ==
    LET r == proc[p] IN
    /\ r.child.alive /\ r.child.open
    /\ Step(p, [ r EXCEPT !.child.open = FALSE ])
    /\ UNCHANGED << store, hist, started, commits >>

\* the compiler terminates, having left the executable or not
ChildExit(p, st, built) ==
    LET r == proc[p] IN
    /\ r.child.alive
    /\ Step(p, [ r EXCEPT !.child.alive = FALSE, !.child.open = FALSE,
                          !.child.status = st,
                          !.files.target_bin =
                              IF built
                              THEN Some(Artifact(r.files.main_rs[1], r.files.cargo_toml[1]))
                              ELSE Nothing ])
    /\ UNCHANGED << store, hist, started, commits >>

\* a poll that never reports the exit
Poll_never_exited(p) ==
    LET r == proc[p] IN
    /\ r.pc = "poll"
    /\ Step(p, [ r EXCEPT !.pc = "copy" ])
    /\ UNCHANGED << store, hist, started, commits >>

\* line 207: popen.poll()
Poll(p) ==
    LET r == proc[p] IN
    /\ r.pc = "poll"
    /\ Step(p, [ r EXCEPT !.pc = IF r.child.alive THEN "copy" ELSE "status" ])
    /\ UNCHANGED << store, hist, started, commits >>

\* lines 208-210: std::io::copy reads the pipe to its end, writing each
\* chunk to the Tee; it blocks while the pipe is empty and still open
Drain(p) ==
    LET r == proc[p] IN
    /\ r.pc = "copy"
    /\ UNCHANGED << store, hist, started, commits >>
    /\ IF r.child.pipe # << >>
       THEN \E k \in 1..Len(r.child.pipe) :
              LET chunk == SubSeq(r.child.pipe, 1, k) IN
              Step(p, [ r EXCEPT !.child.pipe = SubSeq(@, k + 1, Len(@)),
                                 !.tee = Tee_write(@, chunk, sink_write(chunk)),
                                 !.stdout = @ \o Emitted(populate_stdout(r.verbose), chunk) ])
       ELSE /\ ~ r.child.open
            /\ Step(p, [ r EXCEPT !.pc = "poll" ])

\* an open that creates the file when it is missing
open_binary_or_create(files) ==
    IF files.target_bin = Nothing THEN Some(<< >>) ELSE files.target_bin

\* line 233: target/release/bin is opened for reading; Nothing is the
\* error of a missing file
open_binary(files) == files.target_bin

\* lines 213-238: the exit code is normalised, the accumulated output is
\* stored by content hash, the built executable is opened and a keyed
\* writer is opened with the entry's metadata
CommitLog(p) ==
    LET r == proc[p]
        exit_code == InvokerExitCode(r.child.status)
        accum == r.tee.accum
        r1 == [ r EXCEPT !.exit_code = exit_code,
                         !.output_id = Integrity(accum),
                         !.ops = @ \o << "exit_status", "write_hash_sync" >> ] IN
    /\ r.pc = "status"
    /\ store' = write_hash_sync(store, accum)
    /\ UNCHANGED << started, commits >>
    /\ IF open_binary(r.files) = Nothing
       THEN Finish(p, Fail(r1, "io: target/release/bin"))
       ELSE /\ Step(p, [ r1 EXCEPT !.pc = "write", !.writer = << >>,
                                   !.ops = Append(@, "open_sync") ])
            /\ UNCHANGED hist

\* line 240: std::io::copy from the executable into the writer
WriteBinary(p) ==
    LET r == proc[p]
        binary_file == open_binary(r.files)[1]
        left == SubSeq(binary_file, Len(r.writer) + 1, Len(binary_file)) IN
    /\ r.pc = "write"
    /\ UNCHANGED << store, hist, started, commits >>
    /\ IF left # << >>
       THEN \E k \in 1..Len(left) :
              Step(p, [ r EXCEPT !.writer = @ \o SubSeq(left, 1, k) ])
       ELSE Step(p, [ r EXCEPT !.pc = "commit" ])

\* line 242, then lines 119-121 of main
Commit(p) ==
    LET r == proc[p]
        build_metadata == [ output_id |-> r.output_id, exit_code |-> r.exit_code ] IN
    /\ r.pc = "commit"
    /\ store' = writer_commit(store, r.cache_key, build_metadata, r.writer)
    /\ commits' = Append(commits, [ key |-> r.cache_key, seq |-> r.seq, at |-> started,
                                    entry |-> store'.index[r.cache_key] ])
    /\ Step(p, [ r EXCEPT !.pc = "exec", !.pb = "target/release/bin", !.committed = TRUE,
                          !.ops = Append(@, "commit") ])
    /\ UNCHANGED << hist, started >>

\* ------------------------------------------------------- specifications

Running(p) == proc[p].pc # "idle"

\* the compiler at large: it writes up to MaxOut bytes and ends in any of
\* the ways
AnyCompiler ==
    [ outs |-> OutBytes, ends |-> BuildOutcomes, max |-> MaxOut, fs |-> { TRUE } ]

\* a compiler of few words: its output is a run of one byte; it succeeds,
\* fails, or succeeds and is lost to the wait
QuietCompiler ==
    [ outs |-> { "w" },
      ends |-> { << Exited(0), TRUE >>, << Exited(101), FALSE >>, << Undetermined, TRUE >> },
      max |-> MaxQuietOut, fs |-> { TRUE } ]

\* the steps of an invocation once it has started, with the compiler env
Run(p, env) ==
    \/ Lookup(p)
    \/ CopyOut(p)
    \/ Replay(p)
    \/ \E fs_ok \in env.fs : Stage(p, fs_ok)
    \/ Spawn(p)
    \/ \E b \in env.outs : ChildWrite(p, b, env.max)
    \/ ChildClose(p)
    \/ \E end \in env.ends : ChildExit(p, end[1], end[2])
    \/ Poll(p)
    \/ Drain(p)
    \/ CommitLog(p)
    \/ WriteBinary(p)
    \/ Commit(p)
    \/ Execute(p)

\* an invocation starts when no other is running
StartAlone ==
    /\ \A q \in Procs : ~ Running(q)
    /\ started < MaxRuns
    /\ \E source \in RawInputs, rest \in ArgLists, verbose \in Verbosity :
         Begin(1, source, rest, verbose)

Next == StartAlone \/ \E p \in Procs : Run(p, AnyCompiler)

\* invocations one after another against one cache root
Spec == Init /\ [][Next]_vars

\* the scripts that build
GoodInputs == { PlainScript, ShebangScript }

\* an invocation of a script that builds starts when no other is running
StartGood ==
    /\ \A q \in Procs : ~ Running(q)
    /\ started < MaxRuns
    /\ \E source \in GoodInputs, rest \in ArgLists : Begin(1, source, rest, 0)

NextReplay == StartGood \/ \E p \in Procs : Run(p, QuietCompiler)

\* builds and replays of well-formed scripts, one after another
SpecReplay == Init /\ [][NextReplay]_vars

\* two scripts that differ in their shebang line only
TwinInputs == { ShebangScript, OtherShebangScript }

StartTwin ==
    /\ \A q \in Procs : ~ Running(q)
    /\ started < MaxRuns
    /\ \E source \in TwinInputs : Begin(1, source, << >>, 0)

NextTwin == StartTwin \/ \E p \in Procs : Run(p, QuietCompiler)

\* builds and replays of the twin scripts, one after another
SpecTwin == Init /\ [][NextTwin]_vars

\* the buffers a caller hands to Write::write
Buffers == { << a >> : a \in OutBytes } \cup { << a, b >> : a \in OutBytes, b \in OutBytes }

\* one call of Tee::write (lines 58-61) on the Tee of p, around any writer:
\* inner.write accepts n bytes of the buffer.  Fewer than all is a short
\* write; an Err has accepted none.
WriteCall(p, bytes, n) ==
    LET r == proc[p] IN
    /\ Len(r.tee.accum) + Len(bytes) <= MaxTeeBytes
    /\ Step(p, [ r EXCEPT !.tee = Tee_write(@, bytes, n) ])
    /\ UNCHANGED << store, hist, started, commits >>

NextTee == \E bytes \in Buffers : \E n \in 0..Len(bytes) : WriteCall(1, bytes, n)

\* a Tee on its own: Tee::new(inner), then any sequence of write calls
SpecTee == Init /\ [][NextTee]_vars

\* the scripts run quietly and verbosely
VerboseInputs == { PlainScript, UnclosedScript }

StartVerbose ==
    /\ \A q \in Procs : ~ Running(q)
    /\ started < MaxRuns
    /\ \E source \in VerboseInputs, verbose \in Verbosity : Begin(1, source, << >>, verbose)

NextVerbose == StartVerbose \/ \E p \in Procs : Run(p, QuietCompiler)

\* runs with and without --verbose, one after another
SpecVerbose == Init /\ [][NextVerbose]_vars

\* the quiet compiler on a disk where a write to the workspace may fail
FailingDisk == [ QuietCompiler EXCEPT !.fs = BOOLEAN ]

\* a script that builds and the inputs that cannot be staged
FatalRunInputs == { PlainScript, UnclosedScript, BadTomlScript, BinaryInput }

StartFatal ==
    /\ \A q \in Procs : ~ Running(q)
    /\ started < MaxRuns
    /\ \E source \in FatalRunInputs : Begin(1, source, << >>, 0)

NextFatal == StartFatal \/ \E p \in Procs : Run(p, FailingDisk)

\* runs that may end in an input or staging error, one after another
SpecFatal == Init /\ [][NextFatal]_vars

StartDrain ==
    /\ \A q \in Procs : ~ Running(q)
    /\ started < MaxRuns
    /\ Begin(1, PlainScript, << >>, 0)

NextDrain == StartDrain \/ \E p \in Procs : Run(p, QuietCompiler)

\* the process keeps being scheduled while it can take a step of the drain
\* loop or of what follows it, and the compiler exits in the end, which
\* closes its side of the pipe
FairDrain ==
    \A p \in Procs :
        /\ WF_vars(Poll(p))
        /\ WF_vars(Drain(p))
        /\ WF_vars(CommitLog(p))
        /\ WF_vars(\E end \in QuietCompiler.ends : ChildExit(p, end[1], end[2]))

\* builds of one script, one after another, with a compiler that terminates
SpecDrain == Init /\ [][NextDrain]_vars /\ FairDrain

\* main has read a text, computed its key and missed in an empty store
\* (lines 70-100): populate_cache is about to be called
Missed(source) ==
    [ Idle EXCEPT !.pc = "stage", !.seq = 1, !.source = source, !.tempdir = "exists",
                  !.cache_key = get_key(source), !.path = "miss",
                  !.ops = << "metadata_sync" >> ]

InitExtract ==
    /\ \E source \in Texts : proc = [ p \in Procs |-> IF p = 1 THEN Missed(source) ELSE Idle ]
    /\ store = [ index |-> EmptyMap, content |-> {} ]
    /\ hist = << >>
    /\ started = 1
    /\ commits = << >>

NextExtract == Stage(1, TRUE)

\* extraction and staging alone, applied to every text
SpecExtract == InitExtract /\ [][NextExtract]_vars

\* the script two concurrent invocations share
SharedInputs == { PlainScript }

\* invocations in one behaviour of the concurrent specification
MaxConcRuns == 2

\* an invocation starts whatever the others are doing
StartAny(p) ==
    /\ ~ Running(p)
    /\ started < MaxConcRuns
    /\ \E source \in SharedInputs : Begin(p, source, << >>, 0)

NextConc == \E p \in Procs : StartAny(p) \/ Run(p, QuietCompiler)

\* independent processes sharing one cache root, with no lock around the
\* miss path
SpecConc == Init /\ [][NextConc]_vars

\* ------------------------------------------------------------------ claims

Runs == 1..Len(hist)

\* the invocation spawned the compiler and saw it terminate
Compiled(h) == h.compiles >= 1

\* the compiler's normalised exit code was not zero
BuildFailed(h) == Compiled(h) /\ h.exit_code # 0

\* the entry the store holds for a source, if any
EntryOf(source) == metadata_sync(store, get_key(source))

\* C1: two runs in sequence on the same raw input, from an empty cache,
\* invoke the external compiler exactly once in total: once in the first
\* run and never in the second.  Stated for the inputs that get as far as
\* the build in the first run.
C1_OneBuildForTwoRuns ==
    (Len(hist) = 2 /\ hist[1].source = hist[2].source /\ Compiled(hist[1]))
        => (hist[1].compiles = 1 /\ hist[2].compiles = 0)

\* C2: a miss whose compiler exits with a non-zero code c is no tool
\* failure: the run emits the captured diagnostics, commits an entry with
\* exit_code = c under the fingerprint, and the process exits with c.
C2_FailedBuildIsCachedAndMirrored ==
    \A i \in Runs :
        (hist[i].path = "miss" /\ BuildFailed(hist[i]))
            => /\ hist[i].stderr = hist[i].accum
               /\ hist[i].committed
               /\ EntryOf(hist[i].source) # Nothing
               /\ EntryOf(hist[i].source)[1].exit_code = hist[i].exit_code
               /\ hist[i].outcome = "exit"
               /\ hist[i].code = hist[i].exit_code

\* C3: after a run whose build failed, every later run on the unchanged
\* source emits the diagnostics captured by the failed build, exits with
\* the compiler's exit code, and does not invoke the compiler.
C3_FailureIsReplayed ==
    \A i \in Runs : \A j \in Runs :
        (i < j /\ hist[i].source = hist[j].source /\ BuildFailed(hist[i]))
            => /\ hist[j].stderr = hist[i].accum
               /\ hist[j].outcome = "exit"
               /\ hist[j].code = hist[i].exit_code
               /\ hist[j].compiles = 0

\* the wait for the artifact returned its own termination
Determinate(h) == h.execs = 1 /\ h.exec_status.kind # "Undetermined"

\* C4: a run that hits the cache of a successful build hands the Executor
\* the artifact bytes the populating run executed and its own forwarded
\* arguments; given the same arguments, and a determinate wait in both
\* runs, both end with the same exit code.
C4_ReplayMatchesFreshBuild ==
    \A i \in Runs : \A j \in Runs :
        (/\ i < j
         /\ hist[i].source = hist[j].source
         /\ hist[i].committed /\ hist[i].exit_code = 0
         /\ hist[j].path = "hit")
            => /\ hist[i].execs = 1 /\ hist[j].execs = 1
               /\ hist[j].compiles = 0
               /\ hist[j].exec_bytes = hist[i].exec_bytes
               /\ hist[i].exec_args = hist[i].rest
               /\ hist[j].exec_args = hist[j].rest
               /\ (/\ hist[i].rest = hist[j].rest
                   /\ Determinate(hist[i]) /\ Determinate(hist[j]))
                      => (hist[i].outcome = "exit" /\ hist[j].outcome = "exit"
                          /\ hist[i].code = hist[j].code)

\* a cache hit replayed the artifact of an earlier fresh build, with the
\* same non-empty argument list
C4_Witness ==
    /\ Len(hist) = 2
    /\ hist[1].committed /\ hist[1].exit_code = 0 /\ Determinate(hist[1])
    /\ hist[2].source = hist[1].source
    /\ hist[2].path = "hit" /\ Determinate(hist[2])
    /\ hist[2].rest = hist[1].rest /\ hist[2].rest # << >>
    /\ hist[2].code = 8

\* C5: a lookup that finds an entry with exit_code # 0 writes the log blob
\* named by output_id to the error stream and exits with the stored code;
\* neither the compiler nor the artifact runs.
C5_FailureHitReplaysLog ==
    \A i \in Runs :
        hist[i].path = "replay"
            => /\ ReadContent(store, hist[i].metadata[1].output_id).ok
               /\ hist[i].stderr = ReadContent(store, hist[i].metadata[1].output_id).bytes
               /\ hist[i].outcome = "exit"
               /\ hist[i].code = hist[i].metadata[1].exit_code
               /\ hist[i].compiles = 0
               /\ hist[i].execs = 0

\* C6: the Build Invoker and the Executor map every child termination to
\* the same integer: a termination both have seen got the same code.
C6_SameNormalisation ==
    \A i \in Runs : \A j \in Runs :
        (/\ Compiled(hist[i])
         /\ hist[j].execs = 1
         /\ hist[i].status = hist[j].exec_status)
            => hist[i].exit_code = hist[j].code

\* C7: when the drain loop is left, the accumulator holds everything the
\* child wrote, in order.
C7_DrainIsComplete ==
    \A p \in Procs :
        proc[p].pc = "status" => proc[p].tee.accum = proc[p].child.produced

\* the frontmatter of a source holds a configuration mapping
ConfigOf(source) == toml_from_str(SplitFrontmatter(StripShebang(source).trimmed).frontmatter)

HasConfig(source) ==
    /\ ~ StripShebang(source).panic
    /\ ~ SplitFrontmatter(StripShebang(source).trimmed).err
    /\ ~ ConfigOf(source).err

FixedFields ==
    { << << "package", "name" >>, "bin" >>,
      << << "package", "version" >>, "0.0.1" >>,
      << << "package", "edition" >>, "2021" >> }

\* C10: for every configuration mapping, the generated manifest states
\* the three fixed package fields and passes every other key through.
C10_ManifestOverride ==
    \A i \in Runs :
        (hist[i].path = "miss" /\ HasConfig(hist[i].source))
            => /\ hist[i].cargo_toml # Nothing
               /\ FixedFields \subseteq hist[i].cargo_toml[1]
               /\ \A a \in hist[i].cargo_toml[1] :
                      a[1][1] = "package" /\ Len(a[1]) = 2
                          /\ a[1][2] \in { "name", "version", "edition" }
                      => a \in FixedFields
               /\ \A a \in to_string_pretty(ConfigOf(hist[i].source).tbl) :
                      (\A f \in FixedFields : f[1] # a[1])
                          => a \in hist[i].cargo_toml[1]

\* the positions of the commits under key k, and the first and last of them
CommitsOf(k) == { i \in 1..Len(commits) : commits[i].key = k }
FirstCommit(k) == commits[CHOOSE i \in CommitsOf(k) : \A j \in CommitsOf(k) : i <= j]
LastCommit(k) == commits[CHOOSE i \in CommitsOf(k) : \A j \in CommitsOf(k) : i >= j]

\* the blob an index entry names is in the store, whole
EntryComplete(e) ==
    /\ ReadContent(store, e.integrity).ok
    /\ IsExecutable(ReadContent(store, e.integrity).bytes)

C9_EntryNeverMutated ==
    \A k \in DOMAIN store.index :
        /\ \A i \in CommitsOf(k) :
               commits[i] # FirstCommit(k) => commits[i].seq <= FirstCommit(k).at
        /\ store.index[k] = FirstCommit(k).entry

\* C9, amended: no invocation started after the entry's creation writes
\* under the fingerprint; the entry changes only when an invocation that
\* was already running at its creation commits its own build, and it is
\* then that committer's entry.
C9_OnlyOverlappingWritersMutate ==
    \A k \in DOMAIN store.index :
        /\ \A i \in CommitsOf(k) : commits[i].seq <= FirstCommit(k).at
        /\ store.index[k] = LastCommit(k).entry
        /\ (\A i \in CommitsOf(k) : commits[i] = FirstCommit(k))
               => store.index[k] = FirstCommit(k).entry

\* an entry exists and an invocation started after its creation has
\* found it and finished without writing under the fingerprint
C9_Witness ==
    /\ Len(commits) = 1
    /\ store.index[commits[1].key] = commits[1].entry
    /\ \E i \in Runs :
           /\ hist[i].seq > commits[1].at
           /\ get_key(hist[i].source) = commits[1].key
           /\ hist[i].path \in { "hit", "replay" }
           /\ ~ hist[i].committed

\* C11: the workspace directory of an invocation is deleted once the
\* invocation completes, on every completion path: build and execution,
\* success-hit replay, failure-hit replay, fatal error.
C11_WorkspaceDeleted ==
    \A i \in Runs : hist[i].tempdir # "exists"

\* a text without its first line
DropFirstLine(t) ==
    IF Find(t, << "\n" >>) = -1 THEN << >> ELSE SliceFrom(t, Find(t, << "\n" >>) + 1)

\* lines joined by "\n"
RECURSIVE JoinLines(_)
JoinLines(ls) ==
    IF ls = << >> THEN << >>
    ELSE IF Len(ls) = 1 THEN ls[1]
    ELSE ls[1] \o << "\n" >> \o JoinLines(Tail(ls))

\* the manifest generated for a configuration text
ManifestOf(config) == to_string_pretty(MergeManifest(toml_from_str(config).tbl).tbl)

\* the trimmed input of a source with its shebang line removed
SansShebang(source) == Trim(DropFirstLine(Trim(source)))

\* C12: for every input whose trimmed text begins with "#!" (white space or
\* blank lines before it and shebang-only inputs included) the first line
\* of the trimmed text is removed before the frontmatter is located:
\* staging does not panic, it fails only when the rest has no frontmatter
\* close or no valid configuration, and the staged body and manifest are
\* those of the rest, with nothing of the shebang line in the body.
C12_ShebangDiscarded ==
    /\ \A p \in Procs :
           (proc[p].pc = "spawn" /\ StartsWith(Trim(proc[p].source), Shebang))
               => /\ proc[p].files.main_rs =
                         Some(SplitFrontmatter(SansShebang(proc[p].source)).rust_src)
                  /\ proc[p].files.cargo_toml =
                         Some(ManifestOf(SplitFrontmatter(SansShebang(proc[p].source)).frontmatter))
    /\ \A i \in Runs :
           StartsWith(Trim(hist[i].source), Shebang)
               => /\ hist[i].outcome # "panic"
                  /\ hist[i].outcome = "error"
                         => \/ SplitFrontmatter(SansShebang(hist[i].source)).err
                            \/ toml_from_str(SplitFrontmatter(SansShebang(hist[i].source)).frontmatter).err

\* a line consisting solely of "+++"
FenceLine == << "+", "+", "+" >>

\* the text opens with a fence line
Opens(t) == Head(Lines(t)) = FenceLine

\* the later fence lines of a text, and the first of them
Fences(t) == { i \in 2..Len(Lines(t)) : Lines(t)[i] = FenceLine }
FirstFence(t) == CHOOSE i \in Fences(t) : \A j \in Fences(t) : i <= j

\* the text between the opening line and the closing line, and after it
Between(t) == JoinLines(SubSeq(Lines(t), 2, FirstFence(t) - 1))
After(t) == JoinLines(SubSeq(Lines(t), FirstFence(t) + 1, Len(Lines(t))))

\* the shebang-stripped input the extraction works on
Stripped(source) == StripShebang(source).trimmed

\* C13: for every shebang-stripped input that opens with a line consisting
\* solely of "+++", extraction fails with a frontmatter error exactly when
\* no later line consists solely of "+++"; with a closing line (also for an
\* empty block, and when the closing line is the last line) the text
\* between the delimiters is the configuration and the text after the
\* closing line is the source body.
C13_FrontmatterErrorIffUnclosed ==
    /\ \A p \in Procs :
           (/\ proc[p].pc = "spawn"
            /\ ~ StripShebang(proc[p].source).panic
            /\ Opens(Stripped(proc[p].source)))
               => /\ Fences(Stripped(proc[p].source)) # {}
                  /\ proc[p].files.main_rs = Some(After(Stripped(proc[p].source)))
                  /\ proc[p].files.cargo_toml =
                         Some(ManifestOf(Between(Stripped(proc[p].source))))
    /\ \A i \in Runs :
           (/\ ~ StripShebang(hist[i].source).panic
            /\ Opens(Stripped(hist[i].source))
            /\ hist[i].outcome = "error")
               => \/ Fences(Stripped(hist[i].source)) = {}
                  \/ toml_from_str(Between(Stripped(hist[i].source))).err

\* two raw inputs that differ only in their shebang line
DifferOnlyInShebang(a, b) ==
    /\ a # b
    /\ StartsWith(a, Shebang) /\ StartsWith(b, Shebang)
    /\ DropFirstLine(a) = DropFirstLine(b)

\* the commit an invocation made
CommitBy(h) == { c \in 1..Len(commits) : commits[c].seq = h.seq }

\* C14: the key is computed over the raw input, shebang line included: a
\* run finds an entry only if an earlier run of the same raw input
\* committed one, and two inputs that differ only in their shebang line
\* get different keys and an entry each, as committed by their own builds.
C14_ShebangInKey ==
    /\ \A j \in Runs :
           hist[j].path \in { "hit", "replay" }
               => \E i \in Runs :
                      i < j /\ hist[i].source = hist[j].source /\ hist[i].committed
    /\ \A i \in Runs : \A j \in Runs :
           (/\ DifferOnlyInShebang(hist[i].source, hist[j].source)
            /\ hist[i].committed /\ hist[j].committed)
               => /\ get_key(hist[i].source) # get_key(hist[j].source)
                  /\ \A h \in { hist[i], hist[j] } :
                         /\ get_key(h.source) \in DOMAIN store.index
                         /\ \E c \in CommitBy(h) :
                                /\ commits[c].key = get_key(h.source)
                                /\ store.index[get_key(h.source)] = commits[c].entry

\* the second of two scripts that differ only in their shebang line missed
\* after the first was built, was built too, and the store holds two entries
C14_Witness ==
    /\ Len(hist) = 2
    /\ DifferOnlyInShebang(hist[1].source, hist[2].source)
    /\ hist[1].committed
    /\ hist[2].path = "miss" /\ hist[2].committed
    /\ Cardinality(DOMAIN store.index) = 2

\* C15: after any sequence of write calls on a Tee, short writes and
\* failed writes of the inner sink included, the accumulator holds exactly
\* the bytes the inner sink accepted, in the same order.
C15_AccumIsWhatInnerAccepted ==
    \A p \in Procs : proc[p].tee.accum = proc[p].tee.inner

\* two invocations met the same circumstances: the same input and
\* arguments, the same result of the lookup, the same compiler behaviour
\* (output, termination, executable), the same bytes drained before the
\* compiler's exit was seen, and the same termination of the artifact
SameCircumstances(a, b) ==
    /\ a.source = b.source /\ a.rest = b.rest
    /\ a.metadata = b.metadata
    /\ a.produced = b.produced /\ a.status = b.status /\ a.target_bin = b.target_bin
    /\ a.accum = b.accum
    /\ a.exec_status = b.exec_status

FirstOp(ops, op) ==
    IF \E n \in 1..Len(ops) : ops[n] = op
    THEN CHOOSE n \in 1..Len(ops) : ops[n] = op /\ \A m \in 1..(n - 1) : ops[m] # op
    ELSE 0

\* C17: in every reachable store state, concurrent invocations included,
\* every entry stored under a fingerprint has an output_id that names a
\* log blob present in the store: the populator stores the log blob by
\* content hash before it commits the keyed entry.
C17_LogBlobBeforeEntry ==
    /\ \A k \in DOMAIN store.index :
           ReadContent(store, store.index[k].metadata.output_id).ok
    /\ \A p \in Procs :
           proc[p].pc \in { "write", "commit" }
               => ReadContent(store, proc[p].output_id).ok
    /\ \A i \in Runs :
           hist[i].committed
               => /\ FirstOp(hist[i].ops, "write_hash_sync") > 0
                  /\ FirstOp(hist[i].ops, "write_hash_sync") < FirstOp(hist[i].ops, "commit")

\* two concurrent builds committed entries naming different logs, and the
\* store holds both logs
C17_Witness ==
    /\ Len(commits) = 2
    /\ commits[2].seq <= commits[1].at
    /\ commits[1].entry.metadata.output_id # commits[2].entry.metadata.output_id
    /\ \A c \in 1..2 : ReadContent(store, commits[c].entry.metadata.output_id).ok
    /\ \E i \in Runs : hist[i].committed

\* the compiler of a run exited with a non-zero status
ExitedNonZero(h) ==
    Compiled(h) /\ h.status.kind \in { "Exited", "Signaled" } /\ h.exit_code # 0

\* such a run left the log blob and no entry: whatever is stored under its
\* fingerprint was committed by a later run
LeftLogOnly(h) ==
    /\ ~ h.committed
    /\ ReadContent(store, Integrity(h.accum)).ok
    /\ \A c \in CommitsOf(get_key(h.source)) : commits[c].seq > h.seq

\* C18: given that a compiler run that exits non-zero leaves no file at the
\* build-output path, every entry this program commits has exit_code = 0,
\* so the failure-replay branch is never taken on the program's own
\* entries; after such a failed build the store holds the log blob and no
\* entry under the fingerprint.
C18_OnlyZeroEntries ==
    /\ \A c \in 1..Len(commits) : commits[c].entry.metadata.exit_code = 0
    /\ \A i \in Runs : hist[i].path # "replay"
    /\ \A i \in Runs : ExitedNonZero(hist[i]) => LeftLogOnly(hist[i])

\* the termination the populator of a commit saw for its compiler
StatusSeenBy(seq) ==
    IF \E p \in Procs : Running(p) /\ proc[p].seq = seq
    THEN proc[CHOOSE p \in Procs : Running(p) /\ proc[p].seq = seq].child.status
    ELSE hist[CHOOSE i \in Runs : hist[i].seq = seq].status

\* C18, amended: every entry this program commits has exit_code = 0,
\* except the entries committed after a wait that could not determine the
\* compiler's termination, which have exit_code = 1; the failure-replay
\* branch is taken on those entries only; after a build that exited
\* non-zero the store holds the log blob and no entry under the fingerprint.
C18_ZeroUnlessUndetermined ==
    /\ \A c \in 1..Len(commits) :
           \/ commits[c].entry.metadata.exit_code = 0
           \/ /\ commits[c].entry.metadata.exit_code = 1
              /\ StatusSeenBy(commits[c].seq) = Undetermined
    /\ \A i \in Runs :
           hist[i].path = "replay"
               => /\ hist[i].metadata[1].exit_code = 1
                  /\ \E c \in CommitsOf(get_key(hist[i].source)) :
                         /\ commits[c].seq < hist[i].seq
                         /\ commits[c].entry.metadata = hist[i].metadata[1]
                         /\ StatusSeenBy(commits[c].seq) = Undetermined
    /\ \A i \in Runs : ExitedNonZero(hist[i]) => LeftLogOnly(hist[i])

\* a build exited non-zero after writing output and left its log and no
\* entry, while the build of another script committed an entry with
\* exit_code = 0
C18_Witness ==
    /\ \E i \in Runs :
           /\ ExitedNonZero(hist[i]) /\ hist[i].accum # << >>
           /\ hist[i].target_bin = Nothing
           /\ LeftLogOnly(hist[i])
           /\ get_key(hist[i].source) \notin DOMAIN store.index
    /\ \E c \in 1..Len(commits) : commits[c].entry.metadata.exit_code = 0

\* the fatal input and staging errors, and the inputs that have one
FatalErrors == { "FromUtf8Error", "frontmatter", "toml", "io: workspace" }
FatalInputs == { BinaryInput, UnclosedScript, BadTomlScript }

\* the operations that write to the store
StoreWrites == { "write_hash_sync", "open_sync", "commit" }

Ops(h) == { h.ops[n] : n \in 1..Len(h.ops) }

\* C19: a fatal input or staging error (non-text input, missing frontmatter
\* close, invalid manifest syntax, workspace write failure) aborts the run
\* before the compiler is spawned and before any store write: the store is
\* left as it was and the next lookup of that fingerprint is still a miss.
C19_FatalErrorsTouchNothing ==
    /\ \A i \in Runs :
           hist[i].source \in FatalInputs => hist[i].error \in FatalErrors
    /\ \A i \in Runs :
           hist[i].error \in FatalErrors
               => /\ hist[i].outcome = "error"
                  /\ "spawn" \notin Ops(hist[i]) /\ hist[i].compiles = 0
                  /\ Ops(hist[i]) \cap StoreWrites = {}
                  /\ ~ hist[i].committed
                  /\ CommitBy(hist[i]) = {}
                  /\ hist[i].execs = 0
    /\ \A i \in Runs : \A j \in Runs :
           (/\ i < j
            /\ hist[i].error \in FatalErrors
            /\ hist[j].source = hist[i].source
            /\ \A k \in Runs : (i < k /\ k < j) => ~ hist[k].committed)
               => hist[j].path \notin { "hit", "replay" }

\* a run failed on a workspace write, and the next run of the same script
\* missed, built and committed
C19_Witness ==
    /\ Len(hist) = 2
    /\ hist[1].error = "io: workspace"
    /\ hist[2].source = hist[1].source
    /\ hist[2].path = "miss" /\ hist[2].committed

\* how often an operation is in a run's record
RECURSIVE CountOp(_, _)
CountOp(ops, op) ==
    IF ops = << >> THEN 0
    ELSE (IF Head(ops) = op THEN 1 ELSE 0) + CountOp(Tail(ops), op)

\* the invocation is in the drain loop (lines 207-211)
InDrainLoop(p) == proc[p].pc \in { "poll", "copy" }

\* the invocation has left the loop and read the exit status
PastDrainLoop(p) == proc[p].pc \in { "write", "commit" }

\* C20: the drain loop terminates whenever the child eventually exits and
\* its pipe reaches end-of-stream; the exit status is then read exactly
\* once and the commit steps follow, with no further read of the child's
\* output.
C20_DrainTerminates ==
    /\ \A p \in Procs :
           InDrainLoop(p) ~> (proc[p].pc \in { "write", "idle" })
    /\ [](\A p \in Procs :
              PastDrainLoop(p) => CountOp(proc[p].ops, "exit_status") = 1)
    /\ [](\A i \in Runs :
              hist[i].compiles = 1 => CountOp(hist[i].ops, "exit_status") = 1)
    /\ [][\A p \in Procs :
              (proc[p].pc \in { "status", "write", "commit" } /\ proc'[p].pc # "idle")
                  => /\ proc'[p].child.pipe = proc[p].child.pipe
                     /\ proc'[p].tee = proc[p].tee
                     /\ proc'[p].pc \notin { "poll", "copy" }]_vars

\* an invocation drained output of its compiler, left the loop, read the
\* exit status once and is copying the executable into the store
C20_Witness ==
    \E p \in Procs :
        /\ proc[p].pc = "write"
        /\ proc[p].tee.accum # << >>
        /\ proc[p].tee.accum = proc[p].child.produced
        /\ CountOp(proc[p].ops, "exit_status") = 1

====
